---- MODULE Spec2Model ----
(***************************************************************************)
(* Model of src-tauri/src/icloud.rs: the iCloud container resolver         *)
(* (get_icloud_container_url), the worker and bounded wait of              *)
(* check_icloud_status and get_icloud_database_path, get_sync_status, and  *)
(* the timestamp formatter chrono_lite_from_secs. The migration engine     *)
(* (migrate_legacy_database) is not part of icloud.rs as given; it is      *)
(* modelled from section 4.4 of the design document.                       *)
(*                                                                         *)
(* Strings that the code builds with format! are sequences of segments, so *)
(* that concatenation is \o; Option<T> is the empty or one-element         *)
(* sequence; Result<T, E> is a record with a tag.                          *)
(*                                                                         *)
(* Four specifications share the variables: Spec (FairSpec with fairness)  *)
(* runs the commands, SpecResolver one run of the resolver, SpecChrono one *)
(* run of chrono_lite_from_secs, SpecMigrate the migration engine. Each    *)
(* leaves the variables of the others at their initial values.             *)
(***************************************************************************)
EXTENDS Integers, Sequences, FiniteSets, TLC

\* ------------------------------------------------------------------ bounds

\* Number of command invocations in one process lifetime.
MaxCalls == 2

\* Seconds that pass in one step of the clock.
ClockStep == 10

\* The last day, counted from 1970-01-01 as day 0, given to
\* chrono_lite_from_secs: 2101-12-31.
MaxDay == 48212

\* Number of migrate_legacy_database calls in one run.
MaxMigrations == 2

Calls == 1..MaxCalls

\* ------------------------------------------------------- program constants

\* Duration::from_secs(10) of both recv_timeout calls.
TIMEOUT_SECS == 10

\* ------------------------------------------------------------ value shapes

None == <<>>

Some(x) == <<x>>

Ok(v) == [tag |-> "Ok", v |-> v]

Err(e) == [tag |-> "Err", v |-> e]

\* ------------------------------------------------- the container resolver

\* Values $HOME can have; unwrap_or_default gives "" when it is unset.
Homes == {"", "/Users/u"}

\* Paths URLForUbiquityContainerIdentifier can report.
ApiPaths == {<<"/private/var/mobile/Library/Mobile Documents/iCloud~app~biblemarker">>}

\* What the host answers to one run of the resolver.
Envs ==
    [fm_null : BOOLEAN, has_token : BOOLEAN, url_null : BOOLEAN,
     exists : BOOLEAN, path_null : BOOLEAN, utf8_null : BOOLEAN,
     home : Homes, api_path : ApiPaths]

fallback_path(e) == <<e.home, "/Library/Mobile Documents/iCloud~app~biblemarker">>

ErrNoFileManager == <<"Failed to get NSFileManager">>

ErrNotAvailable ==
    <<"iCloud container not available. Make sure iCloud Drive is enabled and you are signed in.">>

ErrNoPath == <<"Failed to get path from iCloud URL">>

ErrNoUtf8 == <<"Failed to convert path to UTF8">>

\* A fallback that accepts the directory or the token alone.
FallbackTaken_either(e) == e.exists \/ e.has_token

\* The condition of the disk fallback.
FallbackTaken(e) == e.exists /\ e.has_token

ErrNotApple == <<"iCloud is only available on macOS and iOS">>

\* The result of get_icloud_container_url on a host answering e, in a build
\* for macOS or iOS.
get_icloud_container_url_apple(e) ==
    IF e.fm_null THEN Err(ErrNoFileManager)
    ELSE IF e.url_null
         THEN IF FallbackTaken(e) THEN Ok(fallback_path(e))
              ELSE Err(ErrNotAvailable)
    ELSE IF e.path_null THEN Err(ErrNoPath)
    ELSE IF e.utf8_null THEN Err(ErrNoUtf8)
    ELSE Ok(e.api_path)

\* The lines get_icloud_container_url writes to stderr on a host answering e.
ResolverLog(e) ==
    IF ~e.fm_null /\ e.url_null /\ FallbackTaken(e)
    THEN <<"[iCloud] API returned nil but container exists on disk, using fallback">>
    ELSE <<>>

\* ------------------------------------------------- chrono_lite_from_secs

SECS_PER_MIN == 60

SECS_PER_HOUR == 3600

SECS_PER_DAY == 86400

DAYS_IN_MONTH == <<31, 28, 31, 30, 31, 30, 31, 31, 30, 31, 30, 31>>

\* A leap rule that lacks the 400-year exception.
is_leap_year_no400(year) == year % 4 = 0 /\ year % 100 # 0

is_leap_year(year) == (year % 4 = 0 /\ year % 100 # 0) \/ (year % 400 = 0)

days_in_year(year) == IF is_leap_year(year) THEN 366 ELSE 365

\* while days >= days_in_year(year) { days -= days_in_year(year); year += 1 }
\* The result is <<days, year>> at the loop's exit.
RECURSIVE YearLoop(_, _)
YearLoop(days, year) ==
    IF days >= days_in_year(year)
    THEN YearLoop(days - days_in_year(year), year + 1)
    ELSE <<days, year>>

\* The length of month `month` (0-based) of `year`.
days_this_month(month, year) ==
    IF month = 1 /\ is_leap_year(year) THEN 29 ELSE DAYS_IN_MONTH[month + 1]

\* while month < 12 { if days < days_this_month { break } days -= ...; month += 1 }
\* The result is <<days, month>> at the loop's exit, month 0-based.
RECURSIVE MonthLoop(_, _, _)
MonthLoop(days, month, year) ==
    IF month < 12
    THEN IF days < days_this_month(month, year)
         THEN <<days, month>>
         ELSE MonthLoop(days - days_this_month(month, year), month + 1, year)
    ELSE <<days, month>>

Min(a, b) == IF a <= b THEN a ELSE b

\* A u64 count of seconds is held as [days, rem], standing for
\* days * SECS_PER_DAY + rem with rem < SECS_PER_DAY, since the integers of the
\* model checker have 32 bits and the timestamps of the year 2100 do not fit.
Secs(n) == [days |-> n \div SECS_PER_DAY, rem |-> n % SECS_PER_DAY]

\* secs / SECS_PER_DAY
DivDay(s) == s.days

\* secs % SECS_PER_DAY
ModDay(s) == s.rem

\* The six numbers chrono_lite_from_secs hands to format!.
chrono_fields(secs_in) ==
    LET time_of_day == ModDay(secs_in)
        yl == YearLoop(DivDay(secs_in), 1970)
        ml == MonthLoop(yl[1], 0, yl[2])
    IN  [year    |-> yl[2],
         month   |-> Min(ml[2], 11) + 1,
         day     |-> ml[1] + 1,
         hours   |-> time_of_day \div SECS_PER_HOUR,
         minutes |-> (time_of_day % SECS_PER_HOUR) \div SECS_PER_MIN,
         seconds |-> time_of_day % SECS_PER_MIN]

DigitChars == <<"0", "1", "2", "3", "4", "5", "6", "7", "8", "9">>

\* The decimal digits of n, most significant first.
RECURSIVE Digits(_)
Digits(n) ==
    IF n < 10 THEN <<DigitChars[n + 1]>>
    ELSE Append(Digits(n \div 10), DigitChars[(n % 10) + 1])

\* format!("{:0w$}", n): at least w characters, padded with zeros on the left.
ZeroPad(n, w) ==
    LET d == Digits(n)
    IN  IF Len(d) >= w THEN d ELSE [i \in 1..(w - Len(d)) |-> "0"] \o d

\* format!("{:04}-{:02}-{:02}T{:02}:{:02}:{:02}Z", ...), a sequence of characters.
format_timestamp(f) ==
    ZeroPad(f.year, 4) \o <<"-">> \o ZeroPad(f.month, 2) \o <<"-">> \o ZeroPad(f.day, 2)
        \o <<"T">> \o ZeroPad(f.hours, 2) \o <<":">> \o ZeroPad(f.minutes, 2)
        \o <<":">> \o ZeroPad(f.seconds, 2) \o <<"Z">>

chrono_lite_from_secs(secs_in) == format_timestamp(chrono_fields(secs_in))

\* --------------------------------------------------------------- the state

VARIABLES
    platform,   \* "apple" (macOS, iOS) or "other": the target of the build
    stderr,     \* the lines written to stderr by the process
    \* the commands, their workers and channels
    pc,         \* per call: "idle", "recv_timeout", "timed_out", "resolving", "done"
    op,         \* per call: the command invoked
    elapsed,    \* per call: seconds spent in recv_timeout, capped at TIMEOUT_SECS
    rxOpen,     \* per channel: its Receiver is alive
    chan,       \* per channel: the messages queued in it
    worker,     \* per call: "none", "running", "resolved", "sent", "sent_late",
                \* "send_failed"
    resolved,   \* per call: Some(what the resolver returned), or None
    result,     \* per call: Some(what the command returned), or None
    \* one run of the resolver
    host,       \* the host's answers
    answer,     \* Some(what get_icloud_container_url returned), or None
    \* one run of chrono_lite_from_secs
    secs,       \* the argument
    stamp,      \* Some(the string returned), or None
    \* the migration engine
    local,      \* the local database file: "absent" or its content
    legacy,     \* the legacy database file in the container: "absent" or its content
    legacySide, \* the legacy location holds -wal and -shm side files
    localSide,  \* the local location holds -wal and -shm side files
    container,  \* the container can be resolved
    hist        \* one record per finished migrate_legacy_database call

invokerVars == <<pc, op, elapsed, rxOpen, chan, worker, resolved, result>>

resolverVars == <<host, answer>>

chronoVars == <<secs, stamp>>

migrationVars == <<local, legacy, legacySide, localSide, container, hist>>

vars == <<platform, stderr, invokerVars, resolverVars, chronoVars, migrationVars>>

Threaded == {"check_icloud_status", "get_icloud_database_path"}

Ops == Threaded \cup {"get_sync_status"}

\* The result of get_icloud_container_url in the build for `platform`.
get_icloud_container_url(e) ==
    IF platform = "apple" THEN get_icloud_container_url_apple(e) ELSE Err(ErrNotApple)

\* What a run of the resolver writes to stderr in the build for `platform`.
resolver_stderr(e) ==
    IF platform = "apple" THEN ResolverLog(e) ELSE <<>>

\* One run of the resolver on a host answering e: what it returns and what it
\* writes to stderr.
resolver_run(e) == [out |-> get_icloud_container_url(e), log |-> resolver_stderr(e)]

\* The runs of the resolver of the macOS and iOS builds over every host of a
\* process started with $HOME set.
ResolverRunsApple ==
    {[out |-> get_icloud_container_url_apple(e), log |-> ResolverLog(e)] :
        e \in {h \in Envs : h.home # ""}}

\* The one run of the resolver of the other builds.
ResolverRunsOther == {[out |-> Err(ErrNotApple), log |-> <<>>]}

\* The runs of the resolver in the build for `platform`.
ResolverRuns == IF platform = "apple" THEN ResolverRunsApple ELSE ResolverRunsOther

\* ------------------------------------------------------------ the commands

ErrRecvTimeout == <<"RecvTimeoutError::Timeout">>

\* A match whose worker-error arm reports the timeout text instead of the
\* worker's own error.
check_icloud_status_result_lost_error(rcv) ==
    IF rcv.tag = "Ok" /\ rcv.v.tag = "Ok"
    THEN [available |-> TRUE, container_path |-> Some(rcv.v.v), error |-> None]
    ELSE [available |-> FALSE, container_path |-> None,
          error |-> Some(<<"iCloud check timed out after 10 seconds">>)]

\* A match whose timeout arm leaves the error unset.
check_icloud_status_result_no_error(rcv) ==
    IF rcv.tag = "Ok"
    THEN IF rcv.v.tag = "Ok"
         THEN [available |-> TRUE, container_path |-> Some(rcv.v.v), error |-> None]
         ELSE [available |-> FALSE, container_path |-> None, error |-> Some(rcv.v.v)]
    ELSE [available |-> FALSE, container_path |-> None, error |-> None]

\* The match of check_icloud_status on what recv_timeout returned.
check_icloud_status_result(rcv) ==
    IF rcv.tag = "Ok"
    THEN IF rcv.v.tag = "Ok"
         THEN [available |-> TRUE, container_path |-> Some(rcv.v.v), error |-> None]
         ELSE [available |-> FALSE, container_path |-> None, error |-> Some(rcv.v.v)]
    ELSE [available |-> FALSE, container_path |-> None,
          error |-> Some(<<"iCloud check timed out after 10 seconds">>)]

\* What create_dir_all can return: Ok, or an io::Error with its text.
MkdirOutcomes == {None, Some(<<"Permission denied (os error 13)">>)}

\* get_icloud_database_path after recv_timeout returned rcv; mkdir is the
\* outcome of create_dir_all, which only the macOS and iOS builds call.
get_icloud_database_path_result(rcv, mkdir) ==
    IF rcv.tag = "Err" THEN Err(<<"iCloud path check timed out">>)
    ELSE IF rcv.v.tag = "Err" THEN Err(rcv.v.v)
    ELSE IF platform = "apple" /\ mkdir # None
         THEN Err(<<"Failed to create iCloud Documents directory: ">> \o mkdir[1])
         ELSE Ok(rcv.v.v \o <<"/Documents/biblemarker.db">>)

\* The match of get_sync_status on what the resolver returned; now_secs is
\* the system time chrono_lite_now reads.
get_sync_status_result(r, now_secs) ==
    IF r.tag = "Ok"
    THEN [state |-> "synced", last_sync |-> Some(chrono_lite_from_secs(Secs(now_secs))),
          pending_changes |-> 0, error |-> None]
    ELSE [state |-> "unavailable", last_sync |-> None,
          pending_changes |-> 0, error |-> Some(<<"iCloud not available">>)]

\* What a threaded command returns once recv_timeout returned rcv.
command_result(o, rcv, mkdir) ==
    IF o = "check_icloud_status" THEN check_icloud_status_result(rcv)
    ELSE get_icloud_database_path_result(rcv, mkdir)

\* System times chrono_lite_now can read.
WallClock == {0, 1704067200}

\* One channel shared by every call.
ChannelOf_shared(c) == 1

\* The channel a call's worker sends on and its caller receives from: the one
\* mpsc::channel() created by the call.
ChannelOf(c) == c

\* A command is invoked. The threaded ones create a channel, spawn a worker
\* and enter recv_timeout; get_sync_status enters the resolver itself.
Start(c, o) ==
    /\ pc[c] = "idle"
    /\ \A d \in Calls : d < c => pc[d] # "idle"
    /\ op' = [op EXCEPT ![c] = o]
    /\ IF o \in Threaded
       THEN /\ pc' = [pc EXCEPT ![c] = "recv_timeout"]
            /\ rxOpen' = [rxOpen EXCEPT ![ChannelOf(c)] = TRUE]
            /\ worker' = [worker EXCEPT ![c] = "running"]
       ELSE /\ pc' = [pc EXCEPT ![c] = "resolving"]
            /\ UNCHANGED <<rxOpen, worker>>
    /\ UNCHANGED <<platform, elapsed, chan, resolved, result, stderr, resolverVars, chronoVars, migrationVars>>

\* The worker's call of get_icloud_container_url returns.
WorkerResolve(c, run) ==
    /\ worker[c] = "running"
    /\ resolved' = [resolved EXCEPT ![c] = Some(run.out)]
    /\ stderr' = stderr \o run.log
    /\ worker' = [worker EXCEPT ![c] = "resolved"]
    /\ UNCHANGED <<platform, pc, op, elapsed, rxOpen, chan, result, resolverVars, chronoVars, migrationVars>>

\* let _ = tx.send(..): the value is queued while the Receiver is alive; with
\* the Receiver dropped the send returns Err, which is ignored. The worker ends.
\* "sent_late" records a send that found the Receiver alive after recv_timeout
\* had returned Err(Timeout): the worker cannot tell it from "sent".
WorkerSend(c) ==
    /\ worker[c] = "resolved"
    /\ IF rxOpen[ChannelOf(c)]
       THEN /\ chan' = [chan EXCEPT ![ChannelOf(c)] = Append(@, resolved[c][1])]
            /\ worker' = [worker EXCEPT ![c] =
                             IF pc[c] = "recv_timeout" THEN "sent" ELSE "sent_late"]
       ELSE /\ worker' = [worker EXCEPT ![c] = "send_failed"]
            /\ UNCHANGED chan
    /\ UNCHANGED <<platform, pc, op, elapsed, rxOpen, resolved, result, stderr, resolverVars, chronoVars, migrationVars>>

\* recv_timeout returns Ok(value): a value is in the channel. The command
\* returns and the Receiver is dropped with whatever the channel holds.
Recv(c, mkdir) ==
    /\ pc[c] = "recv_timeout"
    /\ chan[ChannelOf(c)] # <<>>
    /\ result' = [result EXCEPT ![c] =
                     Some(command_result(op[c], Ok(Head(chan[ChannelOf(c)])), mkdir))]
    /\ chan' = [chan EXCEPT ![ChannelOf(c)] = <<>>]
    /\ rxOpen' = [rxOpen EXCEPT ![ChannelOf(c)] = FALSE]
    /\ pc' = [pc EXCEPT ![c] = "done"]
    /\ UNCHANGED <<platform, op, elapsed, worker, resolved, stderr, resolverVars, chronoVars, migrationVars>>

\* A wait that ends one clock step before the duration has passed.
Expired_one_step_early(c) == elapsed[c] + ClockStep >= TIMEOUT_SECS

\* The wait of recv_timeout is over: the duration has passed.
Expired(c) == elapsed[c] >= TIMEOUT_SECS

\* recv_timeout returns Err(Timeout): it found no value in the channel and
\* the duration has passed. The Receiver lives until the command returns.
Timeout(c) ==
    /\ pc[c] = "recv_timeout"
    /\ chan[ChannelOf(c)] = <<>>
    /\ Expired(c)
    /\ pc' = [pc EXCEPT ![c] = "timed_out"]
    /\ UNCHANGED <<platform, op, elapsed, rxOpen, chan, worker, resolved, result, stderr, resolverVars, chronoVars, migrationVars>>

\* The command returns its timeout failure; the Receiver is dropped, with
\* whatever a late send has queued since.
ReturnTimeout(c) ==
    /\ pc[c] = "timed_out"
    /\ result' = [result EXCEPT ![c] = Some(command_result(op[c], Err(ErrRecvTimeout), None))]
    /\ chan' = [chan EXCEPT ![ChannelOf(c)] = <<>>]
    /\ rxOpen' = [rxOpen EXCEPT ![ChannelOf(c)] = FALSE]
    /\ pc' = [pc EXCEPT ![c] = "done"]
    /\ UNCHANGED <<platform, op, elapsed, worker, resolved, stderr, resolverVars, chronoVars, migrationVars>>

\* get_sync_status: the resolver, called on the caller's thread, returns, and
\* the command returns.
SyncResolve(c, run, now_secs) ==
    /\ pc[c] = "resolving"
    /\ resolved' = [resolved EXCEPT ![c] = Some(run.out)]
    /\ stderr' = stderr \o run.log
    /\ result' = [result EXCEPT ![c] = Some(get_sync_status_result(run.out, now_secs))]
    /\ pc' = [pc EXCEPT ![c] = "done"]
    /\ UNCHANGED <<platform, op, elapsed, rxOpen, chan, worker, resolverVars, chronoVars, migrationVars>>

\* ClockStep seconds pass for every caller blocked in recv_timeout.
Tick ==
    /\ \E c \in Calls : pc[c] = "recv_timeout" /\ elapsed[c] < TIMEOUT_SECS
    /\ elapsed' = [c \in Calls |->
                      IF pc[c] = "recv_timeout" /\ elapsed[c] < TIMEOUT_SECS
                      THEN Min(elapsed[c] + ClockStep, TIMEOUT_SECS) ELSE elapsed[c]]
    /\ UNCHANGED <<platform, pc, op, rxOpen, chan, worker, resolved, result, stderr, resolverVars, chronoVars, migrationVars>>

\* The commands before any is invoked.
InvokerIdle ==
    /\ pc = [c \in Calls |-> "idle"]
    /\ op = [c \in Calls |-> "check_icloud_status"]
    /\ elapsed = [c \in Calls |-> 0]
    /\ rxOpen = [c \in Calls |-> FALSE]
    /\ chan = [c \in Calls |-> <<>>]
    /\ worker = [c \in Calls |-> "none"]
    /\ resolved = [c \in Calls |-> None]
    /\ result = [c \in Calls |-> None]

ResolverIdle ==
    /\ host = CHOOSE e \in Envs : TRUE
    /\ answer = None

ChronoIdle ==
    /\ secs = Secs(0)
    /\ stamp = None

MigrationIdle ==
    /\ local = "absent"
    /\ legacy = "absent"
    /\ legacySide = FALSE
    /\ localSide = FALSE
    /\ container = FALSE
    /\ hist = <<>>

Init ==
    /\ platform \in {"apple", "other"}
    /\ stderr = <<>>
    /\ InvokerIdle
    /\ ResolverIdle
    /\ ChronoIdle
    /\ MigrationIdle

Next ==
    \/ \E c \in Calls, o \in Ops : Start(c, o)
    \/ \E c \in Calls : \E run \in ResolverRuns : WorkerResolve(c, run)
    \/ \E c \in Calls : WorkerSend(c)
    \/ \E c \in Calls, mkdir \in MkdirOutcomes : Recv(c, mkdir)
    \/ \E c \in Calls : Timeout(c)
    \/ \E c \in Calls : ReturnTimeout(c)
    \/ \E c \in Calls : \E run \in ResolverRuns, t \in WallClock : SyncResolve(c, run, t)
    \/ Tick

\* The commands, their workers and the clock, in any interleaving.
Spec == Init /\ [][Next]_vars

\* Time passes and a caller blocked in recv_timeout is scheduled: the thread
\* that called the command runs. Nothing makes the resolver return, neither
\* in a worker nor in get_sync_status.
Fairness ==
    /\ WF_vars(Tick)
    /\ \A c \in Calls : WF_vars(Timeout(c))
    /\ \A c \in Calls : WF_vars(ReturnTimeout(c))
    /\ \A c \in Calls : WF_vars(\E mkdir \in MkdirOutcomes : Recv(c, mkdir))

FairSpec == Spec /\ Fairness

\* ------------------------------------------------ one run of the resolver

\* get_icloud_container_url is called once, on a host answering `host`.
Resolve ==
    /\ answer = None
    /\ answer' = Some(resolver_run(host).out)
    /\ stderr' = stderr \o resolver_run(host).log
    /\ UNCHANGED <<platform, host, invokerVars, chronoVars, migrationVars>>

InitResolver ==
    /\ platform \in {"apple", "other"}
    /\ stderr = <<>>
    /\ host \in Envs
    /\ answer = None
    /\ InvokerIdle
    /\ ChronoIdle
    /\ MigrationIdle

NextResolver == Resolve

SpecResolver == InitResolver /\ [][NextResolver]_vars

\* -------------------------------------- one run of chrono_lite_from_secs

\* Every day is sampled at its first and last second; the first and the last
\* day also at 00:00:59, 00:01:00, 00:59:59, 01:00:00 and 12:34:56.
DayEnds == {0, 86399}

TimesOfDay == DayEnds \cup {59, 60, 3599, 3600, 45296}

ChronoInputs == [days : 0..MaxDay, rem : DayEnds] \cup [days : {0, MaxDay}, rem : TimesOfDay]

\* chrono_lite_from_secs(secs) is called.
Format ==
    /\ stamp = None
    /\ stamp' = Some(chrono_lite_from_secs(secs))
    /\ UNCHANGED <<platform, stderr, secs, invokerVars, resolverVars, migrationVars>>

InitChrono ==
    /\ platform = "apple"
    /\ stderr = <<>>
    /\ secs \in ChronoInputs
    /\ stamp = None
    /\ InvokerIdle
    /\ ResolverIdle
    /\ MigrationIdle

NextChrono == Format

SpecChrono == InitChrono /\ [][NextChrono]_vars

\* ---------------------------------------------------- the migration engine

\* What a database file can hold: nothing (0 bytes), a database that passes
\* the integrity check, one that fails it, or bytes that cannot be opened.
Contents == {"empty", "valid", "corrupt", "malformed"}

\* A step 1 that takes a 0-byte file for existing local data.
LocalPresent_any_file(f) == f # "absent"

\* Step 1: a non-empty file exists at the local location.
LocalPresent(f) == f # "absent" /\ f # "empty"

\* Step 5: the outcomes of opening a file with content f and checking it.
\* What the check makes of a 0-byte file is not stated: any of the three.
IntegrityOutcomes(f) ==
    IF f = "valid" THEN {"ok"}
    ELSE IF f = "corrupt" THEN {"corrupt"}
    ELSE IF f = "malformed" THEN {"io"}
    ELSE {"ok", "corrupt", "io"}

\* Step 4: the copy of the primary file alone; the side files stay behind.
CopiedPrimary(src_file) == src_file

\* Failure branches that leave the copy in place.
AfterFailedCheck_kept == legacy

\* Step 5, failure branches: the copy is deleted.
AfterFailedCheck == "absent"

\* What a call leaves behind: its outcome, whether it copied the legacy file,
\* the local file afterwards; the legacy file and the local side files are
\* as they were.
MigrationResult(o, did_copy, new_local) ==
    [outcome |-> o, copied |-> did_copy, local |-> new_local,
     legacy |-> legacy, side |-> localSide]

\* One call of migrate_legacy_database; `check` is the outcome of the
\* integrity check, read only when the copy is made.
migrate_legacy_database(check) ==
    IF LocalPresent(local) THEN MigrationResult("SkippedAlreadyLocal", FALSE, local)
    ELSE IF ~container THEN MigrationResult("SkippedNoSource", FALSE, local)
    ELSE IF legacy = "absent" THEN MigrationResult("SkippedNoSource", FALSE, local)
    ELSE IF check = "ok" THEN MigrationResult("Migrated", TRUE, CopiedPrimary(legacy))
    ELSE IF check = "corrupt" THEN MigrationResult("FailedCorrupt", TRUE, AfterFailedCheck)
    ELSE MigrationResult("FailedIo", TRUE, AfterFailedCheck)

\* The integrity-check outcomes a call can meet: those of the file it copies.
ChecksNow ==
    IF legacy = "absent" THEN {"ok"} ELSE IntegrityOutcomes(legacy)

Migrate(check) ==
    /\ Len(hist) < MaxMigrations
    /\ LET r == migrate_legacy_database(check)
       IN  /\ local' = r.local
           /\ legacy' = r.legacy
           /\ localSide' = r.side
           /\ hist' = Append(hist, [outcome |-> r.outcome, copied |-> r.copied,
                                    localBefore |-> local, localAfter |-> r.local,
                                    legacyBefore |-> legacy, legacyAfter |-> r.legacy])
    /\ UNCHANGED <<platform, stderr, legacySide, container,
                   invokerVars, resolverVars, chronoVars>>

InitMigrate ==
    /\ platform = "apple"
    /\ stderr = <<>>
    /\ local \in {"absent"} \cup Contents
    /\ legacy \in {"absent"} \cup Contents
    /\ legacySide \in BOOLEAN
    /\ localSide \in BOOLEAN
    /\ container \in BOOLEAN
    /\ hist = <<>>
    /\ InvokerIdle
    /\ ResolverIdle
    /\ ChronoIdle

NextMigrate == \E check \in ChecksNow : Migrate(check)

SpecMigrate == InitMigrate /\ [][NextMigrate]_vars

\* ------------------------------------------------- C9: the calendar date

\* The leap rule: divisible by 4 and not by 100, or divisible by 400.
GregorianLeap(y) == (y % 4 = 0 /\ y % 100 # 0) \/ y % 400 = 0

GregorianMonthLength(y, m) ==
    IF m = 2 THEN (IF GregorianLeap(y) THEN 29 ELSE 28)
    ELSE IF m \in {4, 6, 9, 11} THEN 30 ELSE 31

\* The number of days from 1970-01-01 to the date y-m-d of the proleptic
\* Gregorian calendar, in closed form (years counted from March, in eras of
\* 400 years of 146097 days).
DaysFromCivil(y, m, d) ==
    LET yy == IF m <= 2 THEN y - 1 ELSE y
        era == yy \div 400
        yoe == yy - era * 400
        doy == (153 * (IF m > 2 THEN m - 3 ELSE m + 9) + 2) \div 5 + d - 1
        doe == yoe * 365 + yoe \div 4 - yoe \div 100 + doy
    IN  era * 146097 + doe - 719468

IsDigit(ch) == \E i \in 1..10 : DigitChars[i] = ch

DigitValue(ch) == (CHOOSE i \in 1..10 : DigitChars[i] = ch) - 1

\* The number a sequence of decimal digits writes.
RECURSIVE Number(_)
Number(ds) ==
    IF ds = <<>> THEN 0
    ELSE 10 * Number(SubSeq(ds, 1, Len(ds) - 1)) + DigitValue(ds[Len(ds)])

\* The timestamps asserted by tests::test_chrono_lite_known_timestamps.
KnownTimestamps ==
    {[secs |-> 0, text |-> <<"1", "9", "7", "0", "-", "0", "1", "-", "0", "1", "T", "0", "0", ":", "0", "0", ":", "0", "0", "Z">>],
     [secs |-> 2678399, text |-> <<"1", "9", "7", "0", "-", "0", "1", "-", "3", "1", "T", "2", "3", ":", "5", "9", ":", "5", "9", "Z">>],
     [secs |-> 2678400, text |-> <<"1", "9", "7", "0", "-", "0", "2", "-", "0", "1", "T", "0", "0", ":", "0", "0", ":", "0", "0", "Z">>],
     [secs |-> 31449600, text |-> <<"1", "9", "7", "0", "-", "1", "2", "-", "3", "1", "T", "0", "0", ":", "0", "0", ":", "0", "0", "Z">>],
     [secs |-> 31536000, text |-> <<"1", "9", "7", "1", "-", "0", "1", "-", "0", "1", "T", "0", "0", ":", "0", "0", ":", "0", "0", "Z">>],
     [secs |-> 951782400, text |-> <<"2", "0", "0", "0", "-", "0", "2", "-", "2", "9", "T", "0", "0", ":", "0", "0", ":", "0", "0", "Z">>],
     [secs |-> 951868800, text |-> <<"2", "0", "0", "0", "-", "0", "3", "-", "0", "1", "T", "0", "0", ":", "0", "0", ":", "0", "0", "Z">>],
     [secs |-> 1704067200, text |-> <<"2", "0", "2", "4", "-", "0", "1", "-", "0", "1", "T", "0", "0", ":", "0", "0", ":", "0", "0", "Z">>],
     [secs |-> 1677628799, text |-> <<"2", "0", "2", "3", "-", "0", "2", "-", "2", "8", "T", "2", "3", ":", "5", "9", ":", "5", "9", "Z">>],
     [secs |-> 1677628800, text |-> <<"2", "0", "2", "3", "-", "0", "3", "-", "0", "1", "T", "0", "0", ":", "0", "0", ":", "0", "0", "Z">>]}

\* t is YYYY-MM-DDTHH:MM:SSZ and names the instant s of the Gregorian calendar.
IsTimestampOf(t, s) ==
    /\ Len(t) = 20
    /\ t[5] = "-" /\ t[8] = "-" /\ t[11] = "T" /\ t[14] = ":" /\ t[17] = ":" /\ t[20] = "Z"
    /\ \A i \in (1..19) \ {5, 8, 11, 14, 17} : IsDigit(t[i])
    /\ LET y  == Number(SubSeq(t, 1, 4))
           mo == Number(SubSeq(t, 6, 7))
           d  == Number(SubSeq(t, 9, 10))
           h  == Number(SubSeq(t, 12, 13))
           mi == Number(SubSeq(t, 15, 16))
           se == Number(SubSeq(t, 18, 19))
       IN  /\ mo \in 1..12
           /\ d \in 1..GregorianMonthLength(y, mo)
           /\ h \in 0..23 /\ mi \in 0..59 /\ se \in 0..59
           /\ DaysFromCivil(y, mo, d) = s.days
           /\ h * 3600 + mi * 60 + se = s.rem

\* C9: for every timestamp of the bounded set, chrono_lite_from_secs returns
\* YYYY-MM-DDTHH:MM:SSZ with the UTC date and time of that instant in the
\* proleptic Gregorian calendar: the month is in 1..12, the day within the
\* month's length under the leap rule, and the timestamps the tests assert map
\* to the strings the tests give.
C9_ChronoIsGregorian ==
    stamp # None =>
        /\ IsTimestampOf(stamp[1], secs)
        /\ \A k \in KnownTimestamps : secs = Secs(k.secs) => stamp[1] = k.text

\* C9 witness: the leap day of 2000 has been formatted.
C9_Witness ==
    /\ secs = Secs(951782400)
    /\ stamp = Some(<<"2", "0", "0", "0", "-", "0", "2", "-", "2", "9", "T", "0", "0", ":", "0", "0", ":", "0", "0", "Z">>)

\* ------------------------------------------------ claims on the commands

ThreadedDone(c) == pc[c] = "done" /\ op[c] \in Threaded

TimeoutStatus ==
    [available |-> FALSE, container_path |-> None,
     error |-> Some(<<"iCloud check timed out after 10 seconds">>)]

TimeoutErr == Err(<<"iCloud path check timed out">>)

\* The command of call c returned its timeout failure.
TimedOut(c) ==
    /\ ThreadedDone(c)
    /\ result[c] = Some(IF op[c] = "check_icloud_status" THEN TimeoutStatus ELSE TimeoutErr)

\* C1: a caller blocked in the bounded wait always gets out of it and the
\* command returns, also when the resolver never returns; recv_timeout returns
\* Err(Timeout) only once TIMEOUT_SECS seconds have passed; and a command
\* whose worker delivered nothing in time returned its timeout failure
\* (available = false, no container_path and the timeout error, or Err).
C1_TimeoutEndsTheWait ==
    /\ \A c \in Calls : (pc[c] = "recv_timeout") ~> (pc[c] = "done")
    /\ [](\A c \in Calls :
            /\ pc[c] = "timed_out" => elapsed[c] >= TIMEOUT_SECS
            /\ (ThreadedDone(c) /\ worker[c] # "sent") =>
                  (TimedOut(c) /\ elapsed[c] >= TIMEOUT_SECS))

\* C1 witness: a command has returned its timeout failure while the resolver
\* of its worker has still not returned.
C1_Witness ==
    \E c \in Calls : TimedOut(c) /\ worker[c] = "running" /\ elapsed[c] = TIMEOUT_SECS

\* C2: a command whose worker delivered its value while the caller was in the
\* bounded wait returns that value unchanged and never the timeout failure: check_icloud_status turns Ok(path)
\* into available = true with that path and Err(e) into available = false
\* with error e; get_icloud_database_path forwards Err(e) and builds the
\* database path on Ok(path), unless creating the directory fails.
C2_WorkerResultForwarded ==
    \A c \in Calls :
        (ThreadedDone(c) /\ worker[c] = "sent") =>
            LET r == resolved[c][1]
                got == result[c][1]
            IN  /\ ~TimedOut(c)
                /\ op[c] = "check_icloud_status" =>
                      IF r.tag = "Ok"
                      THEN got = [available |-> TRUE, container_path |-> <<r.v>>,
                                  error |-> <<>>]
                      ELSE got = [available |-> FALSE, container_path |-> <<>>,
                                  error |-> <<r.v>>]
                /\ op[c] = "get_icloud_database_path" =>
                      IF r.tag = "Ok"
                      THEN \/ got = Ok(r.v \o <<"/Documents/biblemarker.db">>)
                           \/ /\ got.tag = "Err"
                              /\ got.v[1] = "Failed to create iCloud Documents directory: "
                      ELSE got = Err(r.v)

\* C2 witness: check_icloud_status has returned the domain error its worker
\* delivered before the duration had passed.
C2_Witness ==
    \E c \in Calls :
        /\ ThreadedDone(c) /\ op[c] = "check_icloud_status" /\ worker[c] = "sent"
        /\ elapsed[c] < TIMEOUT_SECS
        /\ resolved[c] = Some(Err(ErrNotAvailable))
        /\ result[c][1].error = Some(ErrNotAvailable)

\* C3: no command runs the resolver on the caller's thread: whenever a
\* command has invoked the resolver, a worker did it and the caller was in
\* the bounded wait.
C3_ResolverOnlyOnWorkers ==
    \A c \in Calls :
        /\ pc[c] # "resolving"
        /\ (pc[c] = "done" /\ resolved[c] # None) => worker[c] # "none"

\* C5: every status check_icloud_status returns is whole: available holds
\* exactly when container_path is present and exactly when error is absent.
C5_StatusNeverPartial ==
    \A c \in Calls :
        (pc[c] = "done" /\ op[c] = "check_icloud_status") =>
            LET st == result[c][1]
            IN  /\ st.available \in BOOLEAN
                /\ st.available <=> (st.container_path # None)
                /\ st.available <=> (st.error = None)

\* C5 witness: check_icloud_status has returned in each of its three ways:
\* worker success, worker domain error and timeout.
C5_Witness ==
    /\ \E c \in Calls :
          pc[c] = "done" /\ op[c] = "check_icloud_status" /\ result[c][1].available
    /\ \E c \in Calls : TimedOut(c) /\ op[c] = "check_icloud_status"

\* C8: the process writes the fallback line to stderr at most once.
C8_FallbackLoggedOnce == Len(stderr) <= 1

\* The value a finished threaded command received, if it received one.
Received(c) == ThreadedDone(c) /\ ~TimedOut(c)

\* C10: a worker left behind by a timeout does no harm. Its send on the
\* closed channel fails and queues nothing (a send that still finds the
\* Receiver is dropped with it, unread); a command that timed out returns the
\* timeout failure and a command that has returned keeps the result it
\* returned; a command that received a value received the one its own worker
\* resolved; and no channel ever holds more than one value.
C10_LateCompletionHarmless ==
    /\ [](\A c \in Calls :
            /\ Len(chan[c]) <= 1
            /\ worker[c] = "send_failed" => (TimedOut(c) /\ chan[c] = <<>>)
            /\ worker[c] = "sent_late" => pc[c] \in {"timed_out", "done"}
            /\ TimedOut(c) => chan[c] = <<>>
            /\ Received(c) =>
                  /\ worker[c] = "sent"
                  /\ result[c][1] \in
                        {command_result(op[c], Ok(resolved[c][1]), m) : m \in MkdirOutcomes})
    /\ [][\A c \in Calls :
            /\ pc[c] = "done" => (pc'[c] = "done" /\ result'[c] = result[c])
            /\ pc[c] = "timed_out" => (pc'[c] = "timed_out" \/ TimedOut(c)')]_vars

\* C10 witness: one command timed out and its worker's late send has failed,
\* and a later command has received the value of its own worker.
C10_Witness ==
    \E c, d \in Calls :
        /\ c < d
        /\ TimedOut(c) /\ worker[c] = "send_failed"
        /\ Received(d) /\ resolved[d] # resolved[c]

\* ------------------------------------------------ claims on the resolver

\* C4: when URLForUbiquityContainerIdentifier returns nil, the resolver
\* returns the fallback path exactly when that path exists on disk and the
\* identity token is present, and the unavailable error otherwise.
C4_FallbackNeedsBoth ==
    (answer # None /\ platform = "apple" /\ ~host.fm_null /\ host.url_null) =>
        /\ (answer[1].tag = "Ok") <=> (host.exists /\ host.has_token)
        /\ answer[1].tag = "Ok" =>
              answer[1].v = <<host.home, "/Library/Mobile Documents/iCloud~app~biblemarker">>
        /\ answer[1].tag = "Err" => answer[1].v = ErrNotAvailable

\* C4 witness: the API returned nil, the directory exists without a token,
\* and the resolver has answered unavailable.
C4_Witness ==
    /\ platform = "apple" /\ ~host.fm_null /\ host.url_null
    /\ host.exists /\ ~host.has_token
    /\ answer = Some(Err(ErrNotAvailable))

\* ------------------------------------------- claims on the migration engine

\* C6 as stated: the second of two calls returns SkippedAlreadyLocal, copies
\* nothing and leaves the local file as it was, from every starting state.
C6_SecondCallSkips ==
    Len(hist) >= 2 =>
        /\ hist[2].outcome = "SkippedAlreadyLocal"
        /\ ~hist[2].copied
        /\ hist[2].localAfter = hist[2].localBefore

\* C6 amended: the second call returns SkippedAlreadyLocal, copies nothing
\* and leaves the local file as it was exactly when the first call left a
\* non-empty local file; otherwise it runs the migration again.
C6_SecondCallSkipsIfLocalPresent ==
    Len(hist) >= 2 =>
        /\ hist[2].localBefore = hist[1].localAfter
        /\ (hist[1].localAfter \notin {"absent", "empty"}) =>
              /\ hist[2].outcome = "SkippedAlreadyLocal"
              /\ ~hist[2].copied
              /\ hist[2].localAfter = hist[2].localBefore
        /\ (hist[1].localAfter \in {"absent", "empty"}) =>
              hist[2].outcome # "SkippedAlreadyLocal"
        /\ hist[1].outcome = "Migrated" /\ hist[1].legacyBefore # "empty" =>
              hist[2].outcome = "SkippedAlreadyLocal"

\* C6 witness: a first call migrated a valid legacy file over an empty local
\* file and the second call skipped.
C6_Witness ==
    /\ Len(hist) >= 2
    /\ hist[1].outcome = "Migrated" /\ hist[1].localBefore = "empty"
    /\ hist[1].localAfter = "valid"
    /\ hist[2].outcome = "SkippedAlreadyLocal"

\* C7: a call that ends FailedCorrupt or FailedIo leaves no local file, and
\* no call changes or deletes the legacy file.
C7_FailureLeavesLocalAbsent ==
    /\ \A i \in 1..Len(hist) :
          /\ hist[i].outcome \in {"FailedCorrupt", "FailedIo"} => hist[i].localAfter = "absent"
          /\ hist[i].legacyAfter = hist[i].legacyBefore
          /\ hist[i].legacyAfter = legacy
    /\ hist # <<>> => local = hist[Len(hist)].localAfter

\* C7 witness: a call found the copy of a corrupt legacy file failing the
\* check, over a local file that was empty before, and no local file is left.
C7_Witness ==
    /\ hist # <<>>
    /\ hist[1].outcome = "FailedCorrupt" /\ hist[1].localBefore = "empty"
    /\ hist[1].legacyBefore = "corrupt"
    /\ local = "absent" /\ legacy = "corrupt"

====
